--------------------------- MODULE Spec2Model ---------------------------
(***************************************************************************)
(* Model of the frame-capture / export pipeline (useVideoExport), the      *)
(* nearest-colour cache and Floyd-Steinberg dithering (dithering.ts) and   *)
(* block pixelation (pixelation.ts) of animatoor.                          *)
(*                                                                         *)
(* Times are integer milliseconds, as Date.now() returns them.  Real       *)
(* quantities of the source are kept exact by cross-multiplying:           *)
(*   elapsed >= stopDurationMs   <=>  elapsed*fps >= 1000*N - 100          *)
(* loopDuration is held in milliseconds (the source holds seconds).        *)
(* exportProgress is held in tenths, rounded up (0 only when it is 0).    *)
(***************************************************************************)
EXTENDS Integers, Sequences, FiniteSets, TLC

VARIABLES
    isExporting,        \* useState(false)           part_006:760
    exportProgress,     \* useState(0), in tenths    part_006:761
    abortRef,           \* useRef(false).current     part_006:762
    closureIsExporting, \* the isExporting the current exportVideo callback closed over
    now,                \* Date.now()
    sess                \* one record per exportVideo invocation: its locals and timers

exportVars == <<isExporting, exportProgress, abortRef, closureIsExporting, now, sess>>

VARIABLES
    colorCache,         \* the module-level Map of dithering.ts, in insertion order
    cacheHist,          \* history of the Map's use (read by no action)
    dth,                \* the latest dithering call: its arguments and what it did
    pix                 \* the latest pixelation call: its arguments and its result

VARIABLES
    asc,                \* the latest imageDataToASCIICells call: its arguments and its cells
    gpu,                \* the GPUEffectsEngine: its fields and what it did to the GL context
    rnd                 \* renderASCIIToCanvas: cachedFont, the font of each 2D context, the latest call

auxVars == <<asc, gpu, rnd>>

effectVars == <<colorCache, cacheHist, dth, pix, auxVars>>

vars == <<exportVars, effectVars>>

-----------------------------------------------------------------------------
(* Bounds of the model *)

\* The clock stops advancing here.
MaxTime == 300
\* A timer fires at most this long after it is due.
MaxLate == 20

\* setTimeout(() => ppMediaRecorder.stop(), 100)
StopDelayMs == 100

\* The steps in which the clock is read to advance.
TickDeltas == {10, 20}

\* The exportVideo invocations that can be under way at once: an invocation
\* takes a slot and frees it when it is over and has left no timer behind.
Sessions == {1, 2}

\* Export settings the invocations draw from.  loopDuration is in ms and is
\* scaled down with the frame interval kept at 20 ms, so that an export is a
\* few frames long: 40 ms x 1 = 2 frames, 20 ms x 2 = 2 frames, and 50 ms x 1 =
\* 2.5 frames, which Math.round takes up to 3 (as 1.5 s at 15 fps gives 22.5,
\* taken up to 23).
GifFx ==
    [exportFormat |-> "gif", asciiEnabled |-> FALSE, ditheringEnabled |-> TRUE,
     paletteType |-> "gameboy", pixelationEnabled |-> TRUE, pixelSize |-> 4,
     loopDuration |-> 40, exportLoopCount |-> 1, exportFps |-> 50]
GifAscii ==
    [exportFormat |-> "gif", asciiEnabled |-> TRUE, ditheringEnabled |-> TRUE,
     paletteType |-> "gameboy", pixelationEnabled |-> FALSE, pixelSize |-> 1,
     loopDuration |-> 20, exportLoopCount |-> 2, exportFps |-> 50]
WebmFx ==
    [exportFormat |-> "webm", asciiEnabled |-> FALSE, ditheringEnabled |-> FALSE,
     paletteType |-> "gameboy", pixelationEnabled |-> FALSE, pixelSize |-> 1,
     loopDuration |-> 50, exportLoopCount |-> 1, exportFps |-> 50]
Mp4Ascii ==
    [exportFormat |-> "mp4", asciiEnabled |-> TRUE, ditheringEnabled |-> TRUE,
     paletteType |-> "full", pixelationEnabled |-> TRUE, pixelSize |-> 4,
     loopDuration |-> 20, exportLoopCount |-> 2, exportFps |-> 50]
\* The configuration of the specification's example (2.0 s, 30 fps, 2 loops).
ExampleSettings ==
    [exportFormat |-> "webm", asciiEnabled |-> FALSE, ditheringEnabled |-> TRUE,
     paletteType |-> "gameboy", pixelationEnabled |-> FALSE, pixelSize |-> 1,
     loopDuration |-> 2000, exportLoopCount |-> 2, exportFps |-> 30]

SettingsSet == {GifFx, GifAscii, WebmFx, Mp4Ascii}

-----------------------------------------------------------------------------
(* exportVideo: the quantities computed at its start *)

\* Math.round(targetDuration * exportFps); Math.round(x) = floor(x + 1/2)
TargetFrameCount(c) ==
    (c.loopDuration * c.exportLoopCount * c.exportFps + 500) \div 1000

\* Math.round in the place of Math.floor.
ExpectedFrameRounded(c, elapsed) == (elapsed * c.exportFps + 500) \div 1000

\* A capture loop that stops a frame interval after exactDurationMs.
StopReachedOneFrameLate(c, elapsed) ==
    elapsed * c.exportFps >=
        1000 * ((c.loopDuration * c.exportLoopCount * c.exportFps + 500) \div 1000) + 1000

\* elapsed >= stopDurationMs, stopDurationMs = exactDurationMs - frameIntervalMs * 0.1
StopReached(c, elapsed) ==
    elapsed * c.exportFps >= 1000 * TargetFrameCount(c) - 100

\* Math.floor((elapsed / 1000) * exportFps)
ExpectedFrame(c, elapsed) == (elapsed * c.exportFps) \div 1000

\* ditheringEnabled || paletteType !== 'full' || (pixelationEnabled && pixelSize > 1)
HasEffects(c) ==
    \/ c.ditheringEnabled
    \/ c.paletteType # "full"
    \/ (c.pixelationEnabled /\ c.pixelSize > 1)

\* A post-processing guard that does not look at asciiEnabled.
NeedsPostProcessingWithAscii(c) == HasEffects(c)

\* needsVideoPostProcessing
NeedsVideoPostProcessing(c) == ~c.asciiEnabled /\ HasEffects(c)

\* The effect stack one processing iteration applies to a frame.
EffectStack(c) ==
    (IF c.ditheringEnabled \/ c.paletteType # "full"
        THEN (IF c.ditheringEnabled THEN {"dither"} ELSE {"palette"})
        ELSE {})
    \cup (IF c.pixelationEnabled /\ c.pixelSize > 1 THEN {"pixelate"} ELSE {})

\* The progress value num/den as exportProgress holds it.
Tenths(num, den) == (10 * num + den - 1) \div den

Min(a, b) == IF a <= b THEN a ELSE b
Max(a, b) == IF a >= b THEN a ELSE b


-----------------------------------------------------------------------------
(* One exportVideo invocation.                                              *)
(* pc: "idle" not yet invoked; "gifWait" awaiting the frame-interval timer  *)
(* of the GIF capture loop; "gifYield" awaiting the yield timer of the GIF  *)
(* post-processing pass; "gifRender" gif.render() pending (exportVideo has  *)
(* returned); "capture" phase 1 interval running; "procYield" awaiting the  *)
(* yield timer of phase 2; "playback" awaiting the next scheduleFrame       *)
(* timer; "stopDelay" awaiting the timer that stops the recorder; "record"  *)
(* direct recording with progressInterval running; "stopping" stop() was    *)
(* called and onstop is pending; "done".                                    *)
(* A frame is [idx, fx, passes]: the animation-frame index it was read at,   *)
(* the effects applied to it so far and the number of iterations of a        *)
(* processing loop that took it.  fed lists the frames the encoder was       *)
(* given: for a recorder, what its canvas held at the end of a task that     *)
(* drew on it; canvasFx is the set of effects applied to the frame that a    *)
(* direct recording last drew on its canvas.  due is a time multiplied by    *)
(* exportFps.                                                                *)
(* capAt and progAt are the times the capture interval and progressInterval *)
(* last fired (or were created).  lastCapture is the time, since capture    *)
(* began, at which the latest raw frame was read, and cancelledAt the pc at *)
(* which cancelExport first found the invocation (both history only, read   *)
(* by no action).  outcome is how the invocation ended: "finished" (the     *)
(* artifact was downloaded), "aborted" (it saw the abort flag), "empty"     *)
(* (its capture ended with no frame in the list, the flag not set),         *)
(* "noData" (the recorder stopped without a chunk), "failed" (an error was  *)
(* caught); alerts counts the alert() calls of its catch block.  readThrew  *)
(* tells whether the frame read of the invocation's latest capture step     *)
(* threw; tickedIn is the set of frame intervals (counted from the start of  *)
(* phase 1) in which captureLoop fired before stopDurationMs, and readFailed *)
(* whether a read of phase 1 threw (history only).                           *)

IdleSession ==
    [pc |-> "idle", cfg |-> GifFx, t0 |-> 0, due |-> 0, capturedCount |-> 0,
     frames |-> <<>>, i |-> 0, encoder |-> "none",
     canvas |-> -1, fed |-> <<>>, delivered |-> FALSE, capAt |-> 0, progAt |-> 0,
     alerts |-> 0, captureTimer |-> FALSE, outcome |-> "none",
     lastCapture |-> -1, cancelledAt |-> "none", readThrew |-> FALSE,
     tickedIn |-> {}, readFailed |-> FALSE, canvasFx |-> {}]

\* exportVideo's async function has returned (its finally block has run).
Returned(ss) == ss.pc \in {"done", "gifRender"}

InFlight(ss) == ss.pc \notin {"idle", "done"}

\* The slot can take a new invocation.
Free(ss) == ~InFlight(ss) /\ ~ss.captureTimer

DueReached(ss) == now * ss.cfg.exportFps >= ss.due

\* The invocation is over: its locals are gone.  What stays is what it did
\* (outcome, download, alert, encoder, history) and, when the capture interval
\* was never cleared, what that interval's callback still reads.
Release(ss) ==
    [IdleSession EXCEPT !.pc = "done", !.outcome = ss.outcome,
                        !.delivered = ss.delivered, !.alerts = ss.alerts,
                        !.encoder = ss.encoder, !.cancelledAt = ss.cancelledAt,
                        !.readThrew = ss.readThrew,
                        !.captureTimer = ss.captureTimer,
                        !.cfg = IF ss.captureTimer THEN ss.cfg ELSE IdleSession.cfg,
                        !.t0 = IF ss.captureTimer THEN ss.t0 ELSE 0,
                        !.capAt = IF ss.captureTimer THEN ss.capAt ELSE 0,
                        !.capturedCount = IF ss.captureTimer THEN ss.capturedCount ELSE 0,
                        !.canvas = IF ss.captureTimer THEN ss.canvas ELSE -1]

\* return (or fall off the end) inside try: finally runs.
Finish(ss, outcome) ==
    [ss |-> Release([ss EXCEPT !.outcome = outcome]), prog |-> 0]

\* throw inside try: catch (console.error, alert), then finally.
Fail(ss) ==
    [ss |-> Release([ss EXCEPT !.outcome = "failed", !.alerts = @ + 1]), prog |-> 0]

\* Index of the first iteration in j..n-1 after which the loop yields
\* (i % 5 === 0), n when the loop runs to its end without yielding.
RunEnd(j, n) ==
    IF \E k \in j..(n - 1) : k % 5 = 0
        THEN CHOOSE k \in j..(n - 1) :
                 k % 5 = 0 /\ \A m \in j..(k - 1) : m % 5 # 0
        ELSE n

\* Iterations j..k of a processing loop: the effect stack applied to each frame.
ProcessRun(c, fr, j, k) ==
    [m \in 1..Len(fr) |->
        IF j <= m - 1 /\ m - 1 <= k
            THEN [fr[m] EXCEPT !.fx = @ \cup EffectStack(c), !.passes = @ + 1]
            ELSE fr[m]]

FrameIds(fr) == [m \in 1..Len(fr) |-> fr[m].idx]

(* ---- GIF path ---- *)

\* if (!abortRef.current && frames.length > 0) { new GIF; addFrame...; render } else {...}
GifEncode(ss, abort) ==
    IF ~abort /\ Len(ss.frames) > 0
        THEN [ss |-> [ss EXCEPT !.pc = "gifRender", !.encoder = "gifRendering",
                                !.fed = FrameIds(ss.frames),
                                !.t0 = 0, !.due = 0, !.i = 0],
              prog |-> 0]
        ELSE Finish(ss, IF abort THEN "aborted" ELSE "empty")

\* The post-processing loop entered (or resumed) at index j.
GifProcessFrom(ss, j, abort) ==
    LET n == Len(ss.frames)
        k == RunEnd(j, n)
    IN  IF j >= n \/ abort
            THEN GifEncode(ss, abort)
            ELSE IF k < n
                THEN [ss |-> [ss EXCEPT !.frames = ProcessRun(ss.cfg, @, j, k),
                                        !.pc = "gifYield", !.i = k,
                                        !.due = now * ss.cfg.exportFps],
                      prog |-> Tenths(5 * n + 3 * k, 10 * n)]
                ELSE GifEncode([ss EXCEPT !.frames = ProcessRun(ss.cfg, @, j, n - 1)],
                               abort)

\* After the capture loop: the guard of the post-processing pass.
GifAfterCapture(ss, abort) ==
    IF ~ss.cfg.asciiEnabled /\ ~abort /\ Len(ss.frames) > 0 /\ HasEffects(ss.cfg)
        THEN GifProcessFrom(ss, 0, abort)
        ELSE GifEncode(ss, abort)

\* A capture loop that a failed read ends.
GifLoopHeadEndsOnError(ss, i, abort) ==
    IF i < TargetFrameCount(ss.cfg) /\ ~abort /\ ~ss.readThrew
        THEN [ss |-> [ss EXCEPT !.pc = "gifWait", !.i = i,
                                !.due = now * ss.cfg.exportFps + 1000],
              prog |-> Tenths(5 * i, 10 * TargetFrameCount(ss.cfg))]
        ELSE GifAfterCapture(ss, abort)

\* Head of the capture loop at index i: progress, abort check, setTimeout.
GifLoopHead(ss, i, abort) ==
    LET n == TargetFrameCount(ss.cfg)
    IN  IF i < n /\ ~abort
            THEN [ss |-> [ss EXCEPT !.pc = "gifWait", !.i = i,
                                    !.due = now * ss.cfg.exportFps + 1000],
                  prog |-> Tenths(5 * i, 10 * n)]
            ELSE GifAfterCapture(ss, abort)

(* ---- video with post-processing: phases 2 and 3 ---- *)

\* scheduleFrame(index)
ScheduleFrame(ss, index, abort, prog) ==
    IF index >= Len(ss.frames) \/ abort
        THEN [ss |-> [ss EXCEPT !.pc = "stopDelay",
                                !.due = (now + StopDelayMs) * ss.cfg.exportFps],
              prog |-> prog]
        ELSE [ss |-> [ss EXCEPT !.canvas = ss.frames[index + 1].idx,
                                !.fed = Append(@, ss.frames[index + 1].idx),
                                !.i = index + 1, !.pc = "playback",
                                !.due = Max(now * ss.cfg.exportFps,
                                            ss.t0 * ss.cfg.exportFps
                                              + (index + 1) * 1000)],
              prog |-> Tenths(6 * Len(ss.frames) + 4 * index, 10 * Len(ss.frames))]

\* Phase 3 up to the first scheduleFrame(playbackIndex), playbackIndex = 1,
\* all in one task: frame 0 is what the canvas holds at its end only when
\* scheduleFrame(1) puts no frame.
PlaybackStart(ss, abort, ctxOk, recOk, prog) ==
    IF ~ctxOk
        THEN Fail(ss)
        ELSE IF ~recOk
            THEN Fail([ss EXCEPT !.canvas = ss.frames[1].idx])
            ELSE ScheduleFrame([ss EXCEPT !.canvas = ss.frames[1].idx,
                                          !.encoder = "recording",
                                          !.fed = IF 1 >= Len(ss.frames) \/ abort
                                                      THEN <<ss.frames[1].idx>>
                                                      ELSE <<>>,
                                          !.t0 = now],
                               1, abort, prog)

\* The phase 2 loop entered (or resumed) at index j, then `if (abortRef.current) return`.
PpProcessFrom(ss, j, abort, ctxOk, recOk, prog) ==
    LET n == Len(ss.frames)
        k == RunEnd(j, n)
    IN  IF abort
            THEN Finish(ss, "aborted")
            ELSE IF j >= n
                THEN PlaybackStart(ss, abort, ctxOk, recOk, prog)
                ELSE IF k < n
                    THEN [ss |-> [ss EXCEPT !.frames = ProcessRun(ss.cfg, @, j, k),
                                            !.pc = "procYield", !.i = k,
                                            !.due = now * ss.cfg.exportFps],
                          prog |-> Tenths(3 * n + 3 * k, 10 * n)]
                    ELSE PlaybackStart(
                             [ss EXCEPT !.frames = ProcessRun(ss.cfg, @, j, n - 1)],
                             abort, ctxOk, recOk, Tenths(3 * n + 3 * (n - 1), 10 * n))

\* After phase 1: `if (abortRef.current || rawFrames.length === 0) return`, then phase 2.
Phase2Start(ss, abort, ctxOk, prog) ==
    IF abort \/ Len(ss.frames) = 0
        THEN Finish(ss, IF abort THEN "aborted" ELSE "empty")
        ELSE IF ~ctxOk
            THEN Fail(ss)
            ELSE PpProcessFrom(ss, 0, abort, TRUE, TRUE, prog)

(* ---- direct recording (ASCII, or no effect) ---- *)

\* The capture interval is created, then the MediaRecorder is constructed and started.
DirectStart(ss, recOk) ==
    LET s1 == [ss EXCEPT !.captureTimer = TRUE, !.t0 = now, !.capturedCount = 0,
                         !.capAt = now, !.progAt = now]
    IN  IF ~recOk
            THEN Fail(s1)
            ELSE [ss |-> [s1 EXCEPT !.encoder = "recording", !.pc = "record"],
                  prog |-> 0]


-----------------------------------------------------------------------------
(* dithering.ts: the nearest-colour cache.                                  *)
(* colorCache is the Map as a sequence of [key, val] in insertion order,    *)
(* which is the order Map.keys() iterates in.                               *)

\* The capacity of colorCache (8192 in the source), scaled down.
MAX_CACHE_SIZE == 2

\* palettes.ts: grayscale4Palette and gameBoypPalette
Grayscale4Palette == << <<0, 0, 0>>, <<85, 85, 85>>, <<170, 170, 170>>, <<255, 255, 255>> >>
GameBoyPalette == << <<155, 188, 15>>, <<139, 172, 15>>, <<48, 98, 48>>, <<15, 56, 15>> >>

DitherPalettes == {Grayscale4Palette, GameBoyPalette}

\* (r << 16) | (g << 8) | b, for r, g, b in 0..255
CacheKey(r, g, b) == r * 65536 + g * 256 + b

\* colorCache.has(key), colorCache.get(key)
CacheHas(cache, key) == \E i \in 1..Len(cache) : cache[i].key = key
CacheGet(cache, key) == cache[CHOOSE i \in 1..Len(cache) : cache[i].key = key].val

\* dr * dr + dg * dg + db * db
SquaredDistance(r, g, b, p) ==
    (r - p[1]) * (r - p[1]) + (g - p[2]) * (g - p[2]) + (b - p[3]) * (b - p[3])

\* The for-of loop over the palette from entry k on: `dist < minDist` is
\* strict, so the first of several nearest entries is kept.
RECURSIVE NearestFrom(_, _, _, _, _, _, _)
NearestFrom(r, g, b, palette, k, minDist, nearest) ==
    IF k > Len(palette)
        THEN nearest
        ELSE LET dist == SquaredDistance(r, g, b, palette[k])
             IN  IF dist < minDist
                     THEN NearestFrom(r, g, b, palette, k + 1, dist, palette[k])
                     ELSE NearestFrom(r, g, b, palette, k + 1, minDist, nearest)

\* findNearestColor(r, g, b, palette) on the Map `cache`, for a non-empty
\* palette: the colour returned and the Map afterwards.  minDist starts at
\* Infinity, so the first entry is always taken.
findNearestColor(cache, r, g, b, palette) ==
    LET key == CacheKey(r, g, b)
        nearest == NearestFrom(r, g, b, palette, 2,
                               SquaredDistance(r, g, b, palette[1]), palette[1])
        room == IF Len(cache) >= MAX_CACHE_SIZE THEN Tail(cache) ELSE cache
    IN  IF CacheHas(cache, key)
            THEN [nearest |-> CacheGet(cache, key), cache |-> cache]
            ELSE [nearest |-> nearest,
                  cache |-> Append(room, [key |-> key, val |-> nearest])]

(* History of the Map's use.  recency lists the cached keys by their last   *)
(* access (hit or insertion), oldest first.  probe follows one key, that of *)
(* ProbeColor: the colour and the palette of its latest resolution, and     *)
(* whether it has been evicted since.                                        *)

\* The colour whose resolutions are followed: the darkest of the Game Boy
\* palette.
ProbeColor == <<15, 56, 15>>
ProbeKey == CacheKey(ProbeColor[1], ProbeColor[2], ProbeColor[3])

NoProbe == [val |-> <<>>, palette |-> <<>>, evicted |-> FALSE]
NoHist == [recency |-> <<>>, probe |-> NoProbe]
NoCall == [pc |-> "idle"]

Without(seq, k) == SelectSeq(seq, LAMBDA e : e # k)

\* What one findNearestColor call did, seen from outside: the colour asked
\* for and returned, whether the Map held the key, the key evicted (-1: none),
\* the key least recently accessed at that moment, and, for the followed key
\* when it comes back after an eviction, the colour it resolved to against
\* this palette before (<<>> otherwise).
Lookup(hist, before, r, g, b, palette, nearest) ==
    LET key == CacheKey(r, g, b)
        hit == CacheHas(before, key)
        full == ~hit /\ Len(before) >= MAX_CACHE_SIZE
    IN  [color |-> <<r, g, b>>, nearest |-> nearest, hit |-> hit,
         evicted |-> IF full THEN before[1].key ELSE -1,
         lruVictim |-> IF full THEN hist.recency[1] ELSE -1,
         prior |-> IF key = ProbeKey /\ hist.probe.evicted /\ hist.probe.palette = palette
                       THEN hist.probe.val ELSE <<>>]

\* The history after that call.
Recorded(hist, before, r, g, b, palette, nearest) ==
    LET key == CacheKey(r, g, b)
        hit == CacheHas(before, key)
        full == ~hit /\ Len(before) >= MAX_CACHE_SIZE
    IN  [recency |-> Append(Without(IF full THEN Without(hist.recency, before[1].key)
                                            ELSE hist.recency, key), key),
         probe |-> IF key = ProbeKey
                       THEN [val |-> nearest, palette |-> palette, evicted |-> FALSE]
                       ELSE IF full /\ before[1].key = ProbeKey
                           THEN [hist.probe EXCEPT !.evicted = TRUE]
                           ELSE hist.probe]

-----------------------------------------------------------------------------
(* dithering.ts: Floyd-Steinberg diffusion.                                 *)
(* A frame is ImageData: width, height and data, the RGBA bytes row by row  *)
(* (data[i + 1] here is data[i] there).  The error buffer is a Float32Array *)
(* whose values are held exactly, as fractions <<numerator, denominator>>   *)
(* with a power of two as denominator.                                      *)

Zero == <<0, 1>>
Q(n) == <<n, 1>>
QAdd(a, b) ==
    IF a[2] >= b[2]
        THEN <<a[1] + b[1] * (a[2] \div b[2]), a[2]>>
        ELSE <<a[1] * (b[2] \div a[2]) + b[1], b[2]>>
QSub(a, b) == QAdd(a, <<0 - b[1], b[2]>>)
QMul(a, b) == IF a[1] = 0 \/ b[1] = 0 THEN Zero ELSE <<a[1] * b[1], a[2] * b[2]>>
QTimes(a, n) == IF a[1] = 0 THEN Zero ELSE <<a[1] * n, a[2]>>
QOver16(a) == IF a[1] = 0 THEN Zero ELSE <<a[1], a[2] * 16>>
\* Math.max(0, Math.min(255, a))
Clamp255(a) ==
    IF a[1] < 0 THEN Zero ELSE IF a[1] > 255 * a[2] THEN Q(255) ELSE a
\* a | 0, for a >= 0
Trunc(a) == a[1] \div a[2]

\* errBuffer.subarray(begin, end) of a buffer of len elements: a view
\* (offset and length) on the same storage.
Subarray(len, begin, end) ==
    [off |-> Min(begin, len), len |-> Max(0, Min(end, len) - Min(begin, len))]

\* currentBuf and nextBuf, as the source computes their bounds.
CurrentBuf(width, currentRow) ==
    Subarray((width + 2) * 2 * 3,
             currentRow * (width + 2) * 3, (currentRow + 1) * (width + 2) * 3)
NextBuf(width, nextRow) ==
    Subarray((width + 2) * 2 * 3,
             nextRow * (width + 2) * 3, nextRow + 1 * (width + 2) * 3)

\* view[i]; view[i] += q (a write beyond the view's length is ignored);
\* view.fill(0)
ViewGet(buf, view, i) == buf[view.off + i + 1]
ViewAdd(buf, view, i, q) ==
    IF i < view.len THEN [buf EXCEPT ![view.off + i + 1] = QAdd(@, q)] ELSE buf
ViewFill0(buf, view) ==
    [k \in 1..Len(buf) |->
        IF k > view.off /\ k <= view.off + view.len THEN Zero ELSE buf[k]]

\* The body of the x loop for pixel (x, y).  st holds data, errBuffer,
\* currentRow and the Map, and the history (hist, looks, and per pixel errs,
\* the residual over 16, and adds, the accumulated error read for it).
FloydPixel(st, x, y, width, height, palette, intensity) ==
    LET idx == (y * width + x) * 4
        errIdx == (x + 1) * 3
        currentBuf == CurrentBuf(width, st.currentRow)
        nextBuf == NextBuf(width, 1 - st.currentRow)
        r == Clamp255(QAdd(Q(st.data[idx + 1]),
                           QMul(ViewGet(st.errBuffer, currentBuf, errIdx), intensity)))
        g == Clamp255(QAdd(Q(st.data[idx + 2]),
                           QMul(ViewGet(st.errBuffer, currentBuf, errIdx + 1), intensity)))
        b == Clamp255(QAdd(Q(st.data[idx + 3]),
                           QMul(ViewGet(st.errBuffer, currentBuf, errIdx + 2), intensity)))
        found == findNearestColor(st.cache, Trunc(r), Trunc(g), Trunc(b), palette)
        p == found.nearest
        errR == QOver16(QSub(r, Q(p[1])))
        errG == QOver16(QSub(g, Q(p[2])))
        errB == QOver16(QSub(b, Q(p[3])))
        e0 == st.errBuffer
        e1 == IF x < width - 1
                  THEN ViewAdd(ViewAdd(ViewAdd(e0,
                           currentBuf, errIdx + 3, QTimes(errR, 7)),
                           currentBuf, errIdx + 4, QTimes(errG, 7)),
                           currentBuf, errIdx + 5, QTimes(errB, 7))
                  ELSE e0
        e2 == IF y < height - 1 /\ x > 0
                  THEN ViewAdd(ViewAdd(ViewAdd(e1,
                           nextBuf, errIdx, QTimes(errR, 3)),
                           nextBuf, errIdx + 1, QTimes(errG, 3)),
                           nextBuf, errIdx + 2, QTimes(errB, 3))
                  ELSE e1
        e3 == IF y < height - 1
                  THEN ViewAdd(ViewAdd(ViewAdd(e2,
                           nextBuf, errIdx + 3, QTimes(errR, 5)),
                           nextBuf, errIdx + 4, QTimes(errG, 5)),
                           nextBuf, errIdx + 5, QTimes(errB, 5))
                  ELSE e2
        e4 == IF y < height - 1 /\ x < width - 1
                  THEN ViewAdd(ViewAdd(ViewAdd(e3,
                           nextBuf, errIdx + 6, errR),
                           nextBuf, errIdx + 7, errG),
                           nextBuf, errIdx + 8, errB)
                  ELSE e3
    IN  [st EXCEPT
            !.data = [@ EXCEPT ![idx + 1] = p[1], ![idx + 2] = p[2], ![idx + 3] = p[3]],
            !.errBuffer = e4,
            !.cache = found.cache,
            !.hist = Recorded(st.hist, st.cache, Trunc(r), Trunc(g), Trunc(b), palette, p),
            !.looks = Append(@, Lookup(st.hist, st.cache, Trunc(r), Trunc(g), Trunc(b),
                                       palette, p)),
            !.errs = Append(@, <<errR, errG, errB>>),
            !.adds = Append(@, <<ViewGet(st.errBuffer, currentBuf, errIdx),
                                 ViewGet(st.errBuffer, currentBuf, errIdx + 1),
                                 ViewGet(st.errBuffer, currentBuf, errIdx + 2)>>)]

(* Frames and arguments the calls draw from *)

DitherWidth == 2
DitherHeight == 2

\* RGBA pixels: a colour of the Game Boy palette and one of the grayscale.
FrameColors == {<<15, 56, 15, 255>>, <<85, 85, 85, 255>>}

\* The data array of the frame whose pixels, row by row, are px.
FrameData(px) ==
    [i \in 1..(4 * Len(px)) |-> px[((i - 1) \div 4) + 1][((i - 1) % 4) + 1]]

DitherFrames ==
    {FrameData(px) : px \in [1..(DitherWidth * DitherHeight) -> FrameColors]}

\* ditheringIntensity: 0 and 1
Intensities == {<<0, 1>>, <<1, 1>>}

\* Frames of four rows, each row of one colour.
FloydHeight == 4
FloydFrames ==
    {FrameData([n \in 1..(DitherWidth * FloydHeight) |-> rows[((n - 1) \div DitherWidth) + 1]]) :
        rows \in [1..FloydHeight -> FrameColors]}

(* A dithering call runs from its first pixel to its last with nothing in   *)
(* between; dth holds its arguments and locals, k being the number of       *)
(* pixels done, and, once it has returned (pc = "returned"), what it did.   *)

\* What is left of a call that has processed all its pixels.
Returned2(st) ==
    IF st.k >= st.width * st.height
        THEN [pc |-> "returned", fn |-> st.pc, orig |-> st.orig, data |-> st.data,
              width |-> st.width, height |-> st.height, palette |-> st.palette,
              intensity |-> IF st.pc = "reduceColors" THEN Zero ELSE st.intensity,
              looks |-> st.looks, errs |-> st.errs, adds |-> st.adds,
              nextZero |-> st.nextZero]
        ELSE st

\* applyFloydSteinbergDithering(data, width, height, palette, intensity) is
\* called, with resolution 1 (the default): the error buffer is allocated.
FloydSteinbergCall(data, height, palette, intensity) ==
    /\ dth.pc = "idle"
    /\ dth' = [pc |-> "floydSteinberg", orig |-> data, data |-> data,
               width |-> DitherWidth, height |-> height,
               palette |-> palette, intensity |-> intensity, k |-> 0,
               errBuffer |-> [n \in 1..((DitherWidth + 2) * 2 * 3) |-> Zero],
               currentRow |-> 0, cache |-> colorCache, hist |-> cacheHist,
               looks |-> <<>>, errs |-> <<>>, adds |-> <<>>,
               nextZero |-> <<>>]
    /\ UNCHANGED <<exportVars, auxVars, colorCache, cacheHist, pix>>

\* One iteration of the x loop, with the head of the y loop before the first
\* pixel of a row (nextBuf.fill(0)) and its tail after the last
\* (currentRow = nextRow).
FloydSteinbergPixel ==
    /\ dth.pc = "floydSteinberg"
    /\ LET st == [dth EXCEPT !.cache = colorCache, !.hist = cacheHist]
           x == st.k % st.width
           y == st.k \div st.width
           row == (st.width + 2) * 3
           filled == ViewFill0(st.errBuffer, NextBuf(st.width, 1 - st.currentRow))
           s0 == IF x = 0
                     THEN [st EXCEPT
                              !.errBuffer = filled,
                              !.nextZero = Append(@,
                                  \A n \in 1..row :
                                      filled[(1 - st.currentRow) * row + n][1] = 0)]
                     ELSE st
           s1 == FloydPixel(s0, x, y, st.width, st.height, st.palette, st.intensity)
           s2 == [s1 EXCEPT !.currentRow = IF x = st.width - 1 THEN 1 - @ ELSE @,
                            !.k = @ + 1]
       IN  /\ colorCache' = s2.cache
           /\ cacheHist' = s2.hist
           /\ dth' = Returned2([s2 EXCEPT !.cache = <<>>, !.hist = NoHist])
    /\ UNCHANGED <<exportVars, auxVars, pix>>

\* reduceColorsTopalette(data, palette) is called: colorCache.clear()
ReduceColorsCall(data, palette) ==
    /\ dth.pc = "idle"
    /\ dth' = [pc |-> "reduceColors", orig |-> data, data |-> data,
               width |-> DitherWidth, height |-> DitherHeight,
               palette |-> palette, k |-> 0, cache |-> <<>>, hist |-> NoHist,
               looks |-> <<>>, errs |-> <<>>, adds |-> <<>>,
               nextZero |-> <<>>]
    /\ colorCache' = <<>>
    /\ cacheHist' = NoHist
    /\ UNCHANGED <<exportVars, auxVars, pix>>

\* One iteration of the loops of reduceColorsTopalette, which visit every
\* pixel once, in order.
ReduceColorsPixel ==
    /\ dth.pc = "reduceColors"
    /\ LET idx == 4 * dth.k
           r == dth.data[idx + 1]
           g == dth.data[idx + 2]
           b == dth.data[idx + 3]
           found == findNearestColor(colorCache, r, g, b, dth.palette)
           p == found.nearest
       IN  /\ colorCache' = found.cache
           /\ cacheHist' = Recorded(cacheHist, colorCache, r, g, b, dth.palette, p)
           /\ dth' = Returned2(
                       [dth EXCEPT
                           !.data = [@ EXCEPT ![idx + 1] = p[1], ![idx + 2] = p[2],
                                              ![idx + 3] = p[3]],
                           !.looks = Append(@, Lookup(cacheHist, colorCache, r, g, b,
                                                      dth.palette, p)),
                           !.k = @ + 1])
    /\ UNCHANGED <<exportVars, auxVars, pix>>

(* applyBayerDithering *)

bayerMatrix8x8 ==
    << <<0, 32, 8, 40, 2, 34, 10, 42>>,
       <<48, 16, 56, 24, 50, 18, 58, 26>>,
       <<12, 44, 4, 36, 14, 46, 6, 38>>,
       <<60, 28, 52, 20, 62, 30, 54, 22>>,
       <<3, 35, 11, 43, 1, 33, 9, 41>>,
       <<51, 19, 59, 27, 49, 17, 57, 25>>,
       <<15, 47, 7, 39, 13, 45, 5, 37>>,
       <<63, 31, 55, 23, 61, 29, 53, 21>> >>

\* A palette of black and white, and the palettes the Bayer calls draw from.
BlackWhitePalette == << <<0, 0, 0>>, <<255, 255, 255>> >>
BayerPalettes == {BlackWhitePalette, GameBoyPalette}

\* A dark grey and the darkest colour of the Game Boy palette.
BayerColors == {<<10, 10, 10, 255>>, <<15, 56, 15, 255>>}
BayerFrames ==
    {FrameData(px) : px \in [1..(DitherWidth * DitherHeight) -> BayerColors]}

\* (matrix[my][mx] - 32) * ditherScale, ditherScale = 255 * intensity / 64
BayerDither(x, y, intensity) ==
    QMul(<<(bayerMatrix8x8[(y % 8) + 1][(x % 8) + 1] - 32) * 255, 64>>, intensity)

\* Math.max(0, Math.min(255, v + dither)) | 0, stored in the byte array
BayerShift(v, dither) == Trunc(Clamp255(QAdd(Q(v), dither)))

\* applyBayerDithering(data, width, height, palette, intensity) is called,
\* with resolution 1 (the default).
BayerCall(data, palette, intensity) ==
    /\ dth.pc = "idle"
    /\ dth' = [pc |-> "bayer", orig |-> data, data |-> data,
               width |-> DitherWidth, height |-> DitherHeight,
               palette |-> palette, intensity |-> intensity, k |-> 0,
               cache |-> <<>>, hist |-> NoHist, looks |-> <<>>, errs |-> <<>>, adds |-> <<>>,
               nextZero |-> <<>>]
    /\ UNCHANGED <<exportVars, auxVars, colorCache, cacheHist, pix>>

\* One iteration of the loop over the pixels.
BayerPixel ==
    /\ dth.pc = "bayer"
    /\ LET idx == 4 * dth.k
           x == dth.k % dth.width
           y == dth.k \div dth.width
           dither == BayerDither(x, y, dth.intensity)
           r == BayerShift(dth.data[idx + 1], dither)
           g == BayerShift(dth.data[idx + 2], dither)
           b == BayerShift(dth.data[idx + 3], dither)
           found == findNearestColor(colorCache, r, g, b, dth.palette)
           p == found.nearest
       IN  /\ colorCache' = found.cache
           /\ cacheHist' = Recorded(cacheHist, colorCache, r, g, b, dth.palette, p)
           /\ dth' = Returned2(
                       [dth EXCEPT
                           !.data = [@ EXCEPT ![idx + 1] = p[1], ![idx + 2] = p[2],
                                              ![idx + 3] = p[3]],
                           !.looks = Append(@, Lookup(cacheHist, colorCache, r, g, b,
                                                      dth.palette, p)),
                           !.k = @ + 1])
    /\ UNCHANGED <<exportVars, auxVars, pix>>

\* The caller puts the frame back on its canvas (putImageData) and lets go
\* of it.
FrameDone ==
    /\ dth.pc = "returned"
    /\ dth' = NoCall
    /\ UNCHANGED <<exportVars, auxVars, colorCache, cacheHist, pix>>

-----------------------------------------------------------------------------
(* pixelation.ts: applyPixelation on the ImageData of a width x height      *)
(* canvas.                                                                   *)

\* A block fill that stops after the block's first row.
FillBlockFirstRow(data, x, y, blockWidth, blockHeight, width, rgba) ==
    [k \in 1..Len(data) |->
        LET col == ((k - 1) \div 4) % width
            row == ((k - 1) \div 4) \div width
        IN  IF col >= x /\ col < x + blockWidth /\ row = y /\ blockHeight > 0
                THEN rgba[((k - 1) % 4) + 1]
                ELSE data[k]]

\* The by and bx loops: every pixel of the block at (x, y) takes r, g, b, a.
FillBlock(data, x, y, blockWidth, blockHeight, width, rgba) ==
    [k \in 1..Len(data) |->
        LET col == ((k - 1) \div 4) % width
            row == ((k - 1) \div 4) \div width
        IN  IF col >= x /\ col < x + blockWidth /\ row >= y /\ row < y + blockHeight
                THEN rgba[((k - 1) % 4) + 1]
                ELSE data[k]]

\* The y and x loops from the block at (x, y) on: the block's corner pixel is
\* sampled and written over the block, clamped to the frame.
RECURSIVE PixelateFrom(_, _, _, _, _, _)
PixelateFrom(data, x, y, width, height, pixelSize) ==
    IF y >= height
        THEN data
        ELSE IF x >= width
            THEN PixelateFrom(data, 0, y + pixelSize, width, height, pixelSize)
            ELSE LET pixelIndex == (y * width + x) * 4
                     rgba == <<data[pixelIndex + 1], data[pixelIndex + 2],
                               data[pixelIndex + 3], data[pixelIndex + 4]>>
                     blockWidth == Min(pixelSize, width - x)
                     blockHeight == Min(pixelSize, height - y)
                 IN  PixelateFrom(FillBlock(data, x, y, blockWidth, blockHeight,
                                            width, rgba),
                                  x + pixelSize, y, width, height, pixelSize)

\* applyPixelation(ctx, canvas, pixelSize): getImageData, the loops,
\* putImageData.
applyPixelation(data, width, height, pixelSize) ==
    IF pixelSize <= 1 THEN data ELSE PixelateFrom(data, 0, 0, width, height, pixelSize)

(* Canvases and block sizes the calls draw from *)

MaxWidth == 3
MaxHeight == 2
MaxPixelSize == 3

PixelColors == {<<10, 20, 30, 255>>, <<200, 100, 50, 128>>}

\* The frames of a width x height canvas, as the pixels row by row.
PixelFrames(width, height) == [1..(width * height) -> PixelColors]

\* applyPixelation runs on a width x height canvas holding the frame of
\* pixels px; the canvas keeps its width and height, which the function only
\* reads.
PixelateCall(width, height, px, pixelSize) ==
    /\ pix.pc = "idle"
    /\ pix' = [pc |-> "returned",
               orig |-> [width |-> width, height |-> height, data |-> FrameData(px)],
               canvas |-> [width |-> width, height |-> height,
                           data |-> applyPixelation(FrameData(px), width, height,
                                                    pixelSize)],
               pixelSize |-> pixelSize]
    /\ UNCHANGED <<exportVars, auxVars, colorCache, cacheHist, dth>>

\* The caller draws the canvas and lets go of it.
PixelateDone ==
    /\ pix.pc = "returned"
    /\ pix' = NoCall
    /\ UNCHANGED <<exportVars, auxVars, colorCache, cacheHist, dth>>

-----------------------------------------------------------------------------
(* asciiRenderer.ts: imageDataToASCIICells, in its two versions (the first  *)
(* and the optimized one).  Numbers are exact fractions <<n, d>>, d > 0, in *)
(* lowest terms.                                                            *)

RECURSIVE Gcd(_, _)
Gcd(a, b) == IF b = 0 THEN a ELSE Gcd(b, a % b)

Frac(n, d) ==
    LET g == Gcd(IF n < 0 THEN 0 - n ELSE n, d)
    IN  <<n \div g, d \div g>>
FAdd(a, b) == Frac(a[1] * b[2] + b[1] * a[2], a[2] * b[2])
FSub(a, b) == Frac(a[1] * b[2] - b[1] * a[2], a[2] * b[2])
FMul(a, b) == Frac(a[1] * b[1], a[2] * b[2])
FLess(a, b) == a[1] * b[2] < b[1] * a[2]
FLeq(a, b) == a[1] * b[2] <= b[1] * a[2]
\* Math.floor(a)
FFloor(a) == a[1] \div a[2]
\* a | 0: towards zero
FTrunc(a) == IF a[1] >= 0 THEN a[1] \div a[2] ELSE 0 - ((0 - a[1]) \div a[2])
\* Math.round(a)
FRound(a) == FFloor(FAdd(a, <<1, 2>>))
\* Math.max(0, Math.min(1, a))
Clamp01(a) == IF a[1] < 0 THEN <<0, 1>> ELSE IF a[1] > a[2] THEN <<1, 1>> ELSE a

\* charsets: each charset is ordered from darkest to brightest, so a
\* character is its index; what is kept here is chars.length.
Charsets == [standard |-> 10, dense |-> 5, minimal |-> 4, blocks |-> 9, braille |-> 9]

\* getLuminance(r, g, b) of either version, for r, g, b fractions.
getLuminance(version, r, g, b) ==
    IF version = "optimized"
        THEN FAdd(FAdd(FMul(<<83, 10000>>, r), FMul(<<280, 10000>>, g)),
                  FMul(<<2, 10000>>, b))
        ELSE FMul(FAdd(FAdd(FMul(<<2126, 10000>>, r), FMul(<<7152, 10000>>, g)),
                       FMul(<<722, 10000>>, b)),
                  <<1, 255>>)

\* ITU-R BT.709 luminance of a colour, channels normalised to [0, 1]:
\* 0.2126 R + 0.7152 G + 0.0722 B, the measure the cells' brightness is
\* meant to be (history only).
Bt709(r, g, b) ==
    FMul(FAdd(FAdd(FMul(<<2126, 10000>>, r), FMul(<<7152, 10000>>, g)),
              FMul(<<722, 10000>>, b)),
         <<1, 255>>)

\* Math.pow(brightness, 1.0 / gamma) for a gamma 1/k, k a positive integer.
RECURSIVE FPow(_, _)
FPow(a, k) == IF k = 0 THEN <<1, 1>> ELSE FMul(a, FPow(a, k - 1))
PowRecipGamma(a, gamma) == FPow(a, gamma[2] \div gamma[1])

\* The sample points of a cell: px from x0 in steps of stepX below x1, py
\* from y0 in steps of stepY below y1, as indices into data (0-based).
SampleIdx(x0, x1, y0, y1, stepX, stepY, width) ==
    {(py * width + px) * 4 :
        px \in {x \in x0..(x1 - 1) : (x - x0) % stepX = 0},
        py \in {y \in y0..(y1 - 1) : (y - y0) % stepY = 0}}

RECURSIVE SumOver(_, _, _)
SumOver(data, idxs, ch) ==
    IF idxs = {}
        THEN 0
        ELSE LET i == CHOOSE i \in idxs : TRUE
             IN  data[i + ch] + SumOver(data, idxs \ {i}, ch)

\* Steps 2 to 4 on the brightness: gamma, contrast, invert.
Adjust(version, b0, gamma, contrast, invert) ==
    LET b1 == IF version = "optimized"
                  THEN (IF gamma # <<1, 1>> /\ b0[1] > 0
                            THEN PowRecipGamma(b0, gamma) ELSE b0)
                  ELSE (IF gamma # <<1, 1>>
                            THEN PowRecipGamma(IF b0[1] < 0 THEN <<0, 1>> ELSE b0, gamma)
                            ELSE b0)
        b2 == IF contrast # <<1, 1>>
                  THEN Clamp01(FAdd(FMul(FSub(b1, <<1, 2>>), contrast), <<1, 2>>))
                  ELSE b1
    IN  IF invert THEN FSub(<<1, 1>>, b2) ELSE b2

\* The cell at (row, col): the body of the col loop.  index is the index
\* chars is read at, char the character read (-1: undefined); lum is the
\* BT.709 luminance of the average colour.
AsciiCell(version, data, width, height, cols, row, col, charsLen, gamma, contrast, invert) ==
    LET opt == version = "optimized"
        cellW == width \div cols
        cellH == (2 * width) \div cols
        x0 == IF opt THEN col * cellW ELSE (col * width) \div cols
        y0 == IF opt THEN row * cellH ELSE (row * 2 * width) \div cols
        x1 == IF opt THEN Min(x0 + cellW, width)
                     ELSE Min(((col + 1) * width) \div cols, width)
        y1 == IF opt THEN Min(y0 + cellH, height)
                     ELSE Min(((row + 1) * 2 * width) \div cols, height)
        div == IF opt THEN 8 ELSE 4
        stepX == Max(1, (x1 - x0) \div div)
        stepY == Max(1, (y1 - y0) \div div)
        idxs == SampleIdx(x0, x1, y0, y1, stepX, stepY, width)
        sampleCount == Cardinality(idxs)
        avgR == Frac(SumOver(data, idxs, 1), sampleCount)
        avgG == Frac(SumOver(data, idxs, 2), sampleCount)
        avgB == Frac(SumOver(data, idxs, 3), sampleCount)
        avgA == Frac(SumOver(data, idxs, 4), sampleCount)
        b0 == IF opt THEN getLuminance(version, avgR, avgG, avgB)
                     ELSE FMul(FMul(avgA, <<1, 255>>),
                               getLuminance(version, avgR, avgG, avgB))
        brightness == Adjust(version, b0, gamma, contrast, invert)
        scaled == FMul(brightness, <<charsLen - 1, 1>>)
        charIndex == IF opt THEN FTrunc(scaled) ELSE FFloor(scaled)
        index == IF opt THEN charIndex ELSE Max(0, Min(charIndex, charsLen - 1))
    IN  IF sampleCount = 0
            THEN [index |-> 0, char |-> 0, r |-> 0, g |-> 0, b |-> 0,
                  brightness |-> <<0, 1>>, lum |-> <<0, 1>>, samples |-> 0]
            ELSE [index |-> index,
                  char |-> IF index \in 0..(charsLen - 1) THEN index ELSE -1,
                  r |-> IF opt THEN FTrunc(avgR) ELSE FRound(avgR),
                  g |-> IF opt THEN FTrunc(avgG) ELSE FRound(avgG),
                  b |-> IF opt THEN FTrunc(avgB) ELSE FRound(avgB),
                  brightness |-> brightness,
                  lum |-> Bt709(avgR, avgG, avgB),
                  samples |-> sampleCount]

\* imageDataToASCIICells(imageData, width, height, options): cells, cols, rows
imageDataToASCIICells(version, data, width, height, charset, resolution, gamma, contrast, invert) ==
    LET cols == resolution
        rows == (height * cols) \div (2 * width)
    IN  [cols |-> cols, rows |-> rows,
         cells |-> [row \in 1..rows |-> [col \in 1..cols |->
                      AsciiCell(version, data, width, height, cols, row - 1, col - 1,
                                Charsets[charset], gamma, contrast, invert)]]]

(* Frames and options the calls draw from *)

AsciiVersions == {"original", "optimized"}

\* A frame of AsciiCols cells side by side, each two pixels wide and four
\* high and of one colour.
AsciiCols == 2
AsciiCellWidth == 2

\* Black, a dark grey, blue, a middle grey, white; opaque.
CellColors == {<<0, 0, 0, 255>>, <<10, 10, 10, 255>>, <<0, 0, 255, 255>>,
               <<128, 128, 128, 255>>, <<255, 255, 255, 255>>}

\* The pixels, row by row, of the frame whose cells have the colours cc.
CellFrame(cc) ==
    [n \in 1..(AsciiCols * AsciiCellWidth * 2 * AsciiCellWidth) |->
        cc[(((n - 1) % (AsciiCols * AsciiCellWidth)) \div AsciiCellWidth) + 1]]

\* asciiGamma 1 and 0.5; asciiContrast 1, 0.5, 1.2 (the default) and 2
Gammas == {<<1, 1>>, <<1, 2>>}
Contrasts == {<<1, 1>>, <<1, 2>>, <<6, 5>>, <<2, 1>>}

\* imageDataToASCIICells runs on a frame.
AsciiCall(version, cc, charset, gamma, contrast, invert) ==
    /\ asc.pc = "idle"
    /\ asc' = [pc |-> "returned", version |-> version, charset |-> charset,
               gamma |-> gamma, contrast |-> contrast, invert |-> invert,
               frame |-> imageDataToASCIICells(version, FrameData(CellFrame(cc)),
                             AsciiCols * AsciiCellWidth, 2 * AsciiCellWidth, charset,
                             AsciiCols, gamma, contrast, invert)]
    /\ UNCHANGED <<exportVars, colorCache, cacheHist, dth, pix, gpu, rnd>>

\* The caller renders the cells and lets go of them.
AsciiDone ==
    /\ asc.pc = "returned"
    /\ asc' = NoCall
    /\ UNCHANGED <<exportVars, colorCache, cacheHist, dth, pix, gpu, rnd>>

-----------------------------------------------------------------------------
(* asciiRenderer.ts: renderASCIIToCanvas and its font cache.  A font is      *)
(* <<weight, size in px, family>>; cachedFont is "" (here <<>>) until the    *)
(* first call.  The preview canvas lives as long as the page; an export      *)
(* draws on a canvas it creates.                                             *)

\* The 2D contexts, with the width and height of their canvases.
CanvasSize == [preview |-> <<40, 20>>, export |-> <<80, 40>>]

\* A 2D context that was never given a font has 10px sans-serif.
NoRender ==
    [cachedFont |-> <<>>,
     font |-> [c \in DOMAIN CanvasSize |-> <<"normal", 10, "sans-serif">>],
     call |-> NoCall]

\* fontStr: `${fontWeight} ${actualFontSize}px "Courier New", Consolas,
\* monospace`, actualFontSize being fontSize when given (> 0) and
\* Math.max(4, Math.min(cellH * 1.1, cellW * 1.8)) | 0 otherwise.
FontStr(fontWeight, fontSize, canvasWidth, canvasHeight, cols, rows) ==
    LET byH == Frac(11 * canvasHeight, 10 * rows)
        byW == Frac(18 * canvasWidth, 10 * cols)
        fitFontSize == IF FLess(byH, byW) THEN byH ELSE byW
        actualFontSize == IF fontSize > 0 THEN fontSize
                          ELSE FTrunc(IF FLess(fitFontSize, <<4, 1>>) THEN <<4, 1>>
                                      ELSE fitFontSize)
    IN  <<fontWeight, actualFontSize, "Courier New">>

\* document.createElement('canvas') and getContext('2d') for an export.
CreateCanvas ==
    /\ rnd' = [rnd EXCEPT !.font["export"] = NoRender.font["export"], !.call = NoCall]
    /\ UNCHANGED <<exportVars, colorCache, cacheHist, dth, pix, asc, gpu>>

\* renderASCIIToCanvas(ctx, frame, canvasWidth, canvasHeight, options)
RenderASCIIToCanvas(ctx, cols, rows, fontSize, fontWeight) ==
    LET fontStr == FontStr(fontWeight, fontSize, CanvasSize[ctx][1], CanvasSize[ctx][2],
                           cols, rows)
        call == [pc |-> "returned", ctx |-> ctx, cols |-> cols, rows |-> rows,
                 fontStr |-> IF rows = 0 \/ cols = 0 THEN <<>> ELSE fontStr]
    IN  /\ rnd' = IF rows = 0 \/ cols = 0
                      THEN [rnd EXCEPT !.call = call]
                      ELSE IF rnd.cachedFont # fontStr
                          THEN [cachedFont |-> fontStr,
                                font |-> [rnd.font EXCEPT ![ctx] = fontStr],
                                call |-> call]
                          ELSE [rnd EXCEPT !.call = call]
        /\ UNCHANGED <<exportVars, colorCache, cacheHist, dth, pix, asc, gpu>>

-----------------------------------------------------------------------------
(* gpuShaders.ts: GPUEffectsEngine.  A field of the engine is TRUE when it  *)
(* holds an object, FALSE when it is null.  call, completion, failed, drew, *)
(* src and out tell what the engine's latest method call was, how it        *)
(* completed ("return true", "return false", "throw"), which step failed in *)
(* it, whether it issued gl.drawArrays, and the frame the fragments sampled *)
(* and the one they wrote; initialized is what the latest                   *)
(* initializeFromCanvas returned ("none" before the first) (history only).  *)

NoEngine ==
    [gl |-> FALSE, quad |-> FALSE, pixelationProgram |-> FALSE,
     ditheringProgram |-> FALSE, paletteProgram |-> FALSE, framebuffer |-> FALSE,
     texture |-> FALSE, call |-> "none", completion |-> "none", failed |-> "none",
     drew |-> FALSE, src |-> <<>>, out |-> <<>>, args |-> <<>>,
     initialized |-> "none"]

\* The steps of initializeFromCanvas that can fail: getContext returns null
\* or throws, createVertexArray returns null, a ShaderProgram constructor
\* throws, createFramebuffer or createTexture returns null.
InitFailures ==
    {"none", "getContextNull", "getContextThrows", "createVertexArray",
     "pixelationProgram", "ditheringProgram", "paletteProgram", "createFramebuffer"}

\* How a ShaderProgram constructor fails: createShader returns null, the
\* shader does not compile, createProgram returns null, the program does not
\* link.  Each is a throw out of the constructor.
ProgramFailures == {"createShader", "compileShader", "createProgram", "linkProgram"}

\* The body of the try block of initializeFromCanvas, up to the step that
\* fails: the fields assigned so far and how the block completes.
InitBody(eng, failAt) ==
    LET e0 == [eng EXCEPT !.failed = failAt]
        e1 == [e0 EXCEPT !.gl = TRUE]
        e2 == [e1 EXCEPT !.quad = TRUE]
        e3 == [e2 EXCEPT !.pixelationProgram = TRUE]
        e4 == [e3 EXCEPT !.ditheringProgram = TRUE]
        e5 == [e4 EXCEPT !.paletteProgram = TRUE]
        e6 == [e5 EXCEPT !.framebuffer = TRUE, !.texture = TRUE]
    IN  CASE failAt = "getContextThrows" -> [e0 EXCEPT !.completion = "throw"]
          [] failAt = "getContextNull" -> [e0 EXCEPT !.completion = "return false"]
          [] failAt = "createVertexArray" -> [e1 EXCEPT !.completion = "throw"]
          [] failAt = "pixelationProgram" -> [e2 EXCEPT !.completion = "throw"]
          [] failAt = "ditheringProgram" -> [e3 EXCEPT !.completion = "throw"]
          [] failAt = "paletteProgram" -> [e4 EXCEPT !.completion = "throw"]
          [] failAt = "createFramebuffer" -> [e5 EXCEPT !.completion = "throw"]
          [] OTHER -> [e6 EXCEPT !.completion = "return true"]

\* A try block without its catch: the error goes on to the caller.
Uncaught(res) == res

\* catch (e) { console.warn(...); return false; }
Caught(res) ==
    IF res.completion = "throw" THEN [res EXCEPT !.completion = "return false"] ELSE res

(* The fragment shaders.  A fragment at pixel (x, y) has vTexCoord          *)
(* ((x + 1/2) / width, (y + 1/2) / height); texture() with NEAREST filtering *)
(* gives the texel the coordinate falls in; the colour written is held as a  *)
(* byte per channel, the device rounding a half up or down.                  *)

\* const mat4 bayerMatrix (16 values, column by column, before the / 16.0)
\* and bayerMatrix[int(bayerCoord.x)][int(bayerCoord.y)] * 16
Threshold16(x, y) ==
    LET bayerMatrix == <<0, 8, 2, 10, 12, 4, 14, 6, 3, 11, 1, 9, 15, 7, 13, 5>>
    IN  bayerMatrix[(x % 4) * 4 + (y % 4) + 1]

\* A channel value v / 255 plus shift, as the byte stored.
StoreByte(v, shift, tieUp) ==
    LET a == Clamp255(QAdd(Q(v), shift))
        twice == QAdd(QTimes(a, 2), Q(1))
    IN  IF tieUp \/ (twice[1] % (2 * twice[2]) # 0)
            THEN twice[1] \div (2 * twice[2])
            ELSE (twice[1] \div (2 * twice[2])) - 1

\* DITHERING_FRAGMENT_SHADER: color + (threshold - 0.5) * uIntensity / 255.0
DitheringFragment(src, x, y, width, intensity, tieUp) ==
    LET idx == (y * width + x) * 4
        shift == QMul(<<Threshold16(x, y) - 8, 16>>, intensity)
    IN  <<StoreByte(src[idx + 1], shift, tieUp), StoreByte(src[idx + 2], shift, tieUp),
          StoreByte(src[idx + 3], shift, tieUp), src[idx + 4]>>

\* PIXELATION_FRAGMENT_SHADER: the texel at
\* floor(vTexCoord * uTexSize / uPixelSize) * uPixelSize / uTexSize
PixelationFragment(src, x, y, width, pixelSize) ==
    LET sx == (x \div pixelSize) * pixelSize
        sy == (y \div pixelSize) * pixelSize
        idx == (sy * width + sx) * 4
    IN  <<src[idx + 1], src[idx + 2], src[idx + 3], src[idx + 4]>>

\* gl.drawArrays(gl.TRIANGLE_STRIP, 0, 4): the frame the quad's fragments
\* write, fragment[x, y] being the colour of the one at (x, y).
DrawArrays(width, height, fragment) ==
    [n \in 1..(4 * width * height) |->
        fragment[((n - 1) \div 4) % width, ((n - 1) \div 4) \div width][((n - 1) % 4) + 1]]

(* The CPU effects on the same frame, from a cache that holds no entry.     *)

\* applyBayerDithering's result, pixel by pixel.
CpuBayer(src, width, height, palette, intensity) ==
    LET Pixel(x, y) ==
            LET idx == (y * width + x) * 4
                dither == BayerDither(x, y, intensity)
                r == BayerShift(src[idx + 1], dither)
                g == BayerShift(src[idx + 2], dither)
                b == BayerShift(src[idx + 3], dither)
                p == findNearestColor(<<>>, r, g, b, palette).nearest
            IN  <<p[1], p[2], p[3], src[idx + 4]>>
    IN  [n \in 1..(4 * width * height) |->
            Pixel(((n - 1) \div 4) % width, ((n - 1) \div 4) \div width)[((n - 1) % 4) + 1]]

(* Actions of the engine *)

\* initializeFromCanvas(canvas)
InitializeFromCanvas(failAt, how) ==
    /\ failAt \in {"pixelationProgram", "ditheringProgram", "paletteProgram"}
          \/ how = "createShader"
    /\ gpu' = [Caught(InitBody(gpu, failAt)) EXCEPT
                  !.call = "initializeFromCanvas", !.drew = FALSE,
                  !.initialized = Caught(InitBody(gpu, failAt)).completion,
                  !.src = <<>>, !.out = <<>>,
                  !.args = IF failAt \in {"pixelationProgram", "ditheringProgram",
                                          "paletteProgram"}
                               THEN <<how>> ELSE <<>>]
    /\ UNCHANGED <<exportVars, colorCache, cacheHist, dth, pix, asc, rnd>>

\* applyDithering(sourceCanvas, intensity, resolution); throws tells whether
\* a GL call of the try block throws.
GpuApplyDithering(src, intensity, tieUp, throws) ==
    LET ready == gpu.gl /\ gpu.ditheringProgram
        Fragment == [x \in 0..(DitherWidth - 1), y \in 0..(DitherHeight - 1) |->
                        DitheringFragment(src, x, y, DitherWidth, intensity, tieUp)]
        body == IF throws
                    THEN [gpu EXCEPT !.completion = "throw", !.drew = FALSE,
                                     !.out = <<>>]
                    ELSE [gpu EXCEPT !.completion = "return true", !.drew = gpu.quad,
                                     !.out = IF gpu.quad
                                                 THEN DrawArrays(DitherWidth,
                                                          DitherHeight, Fragment)
                                                 ELSE <<>>]
    IN  /\ gpu' = [(IF ready
                        THEN Caught(body)
                        ELSE [gpu EXCEPT !.completion = "return false", !.drew = FALSE,
                                         !.out = <<>>])
                   EXCEPT !.call = "applyDithering", !.src = src,
                          !.failed = IF throws /\ ready THEN "glCall" ELSE "none",
                          !.args = <<intensity>>]
        /\ UNCHANGED <<exportVars, colorCache, cacheHist, dth, pix, asc, rnd>>

\* applyPixelation(sourceCanvas, targetCanvas, pixelSize)
GpuApplyPixelation(src, pixelSize, throws) ==
    LET ready == gpu.gl /\ gpu.pixelationProgram
        Fragment == [x \in 0..(DitherWidth - 1), y \in 0..(DitherHeight - 1) |->
                        PixelationFragment(src, x, y, DitherWidth, pixelSize)]
        body == IF throws
                    THEN [gpu EXCEPT !.completion = "throw", !.drew = FALSE,
                                     !.out = <<>>]
                    ELSE [gpu EXCEPT !.completion = "return true", !.drew = gpu.quad,
                                     !.out = IF gpu.quad
                                                 THEN DrawArrays(DitherWidth,
                                                          DitherHeight, Fragment)
                                                 ELSE <<>>]
    IN  /\ gpu' = [(IF ready
                        THEN Caught(body)
                        ELSE [gpu EXCEPT !.completion = "return false", !.drew = FALSE,
                                         !.out = <<>>])
                   EXCEPT !.call = "applyPixelation", !.src = src,
                          !.failed = IF throws /\ ready THEN "glCall" ELSE "none",
                          !.args = <<pixelSize>>]
        /\ UNCHANGED <<exportVars, colorCache, cacheHist, dth, pix, asc, rnd>>

-----------------------------------------------------------------------------
(* Timers.  A setTimeout fires once the clock has reached its due time, a   *)
(* setInterval once its period has passed since it last fired, and either   *)
(* at most MaxLate later.  The periods are Math.max(1, frameIntervalMs / 2) *)
(* and Math.max(5, frameIntervalMs / 2), which is frameIntervalMs / 2 for   *)
(* every exportFps up to 100.                                               *)

TimeoutPcs == {"gifWait", "gifYield", "procYield", "playback", "stopDelay", "stopping"}

\* The invocation has a timer alive.
HasTimer(ss) == ss.pc \in TimeoutPcs \cup {"capture", "record"} \/ ss.captureTimer

\* The hook reads the clock only as a difference from a reading it took while
\* a timer of its own was alive, so the clock is followed from the moment a
\* timer comes alive (time 0) until none is.
Clock(ses, t) == IF \E s \in Sessions : HasTimer(ses[s]) THEN t ELSE 0

PeriodPassed(c, since, t) == (t - since) * 2 * c.exportFps >= 1000

\* No live timer of the invocation is more than MaxLate overdue at time t.
CanWait(ss, t) ==
    LET fps == ss.cfg.exportFps
    IN  /\ ss.pc \in TimeoutPcs => t * fps <= ss.due + MaxLate * fps
        /\ ss.captureTimer => (t - ss.capAt - MaxLate) * 2 * fps <= 1000
        /\ ss.pc = "record" => (t - ss.progAt - MaxLate) * 2 * fps <= 1000

-----------------------------------------------------------------------------
(* Actions of the export hook *)

\* A step of invocation s that ends in the effect e: the invocation's locals,
\* setExportProgress, and setIsExporting(false) when exportVideo returns.
Apply(s, e) ==
    /\ sess' = [sess EXCEPT ![s] = e.ss]
    /\ isExporting' = IF Returned(e.ss) THEN FALSE ELSE isExporting
    /\ exportProgress' = e.prog
    /\ now' = Clock(sess', now)
    /\ UNCHANGED <<abortRef, closureIsExporting, effectVars>>

\* exportVideo(canvas, settings) called on the current callback instance.
\* `if (isExporting) return` reads the value the callback closed over.
ExportVideo(s, c, ctxOk, recOk) ==
    /\ Free(sess[s])
    /\ \A r \in Sessions : r < s => ~Free(sess[r])
    /\ ~closureIsExporting
    /\ LET ss0 == [IdleSession EXCEPT !.cfg = c, !.t0 = now]
           e == IF c.exportFormat = "gif"
                    THEN (IF ctxOk THEN GifLoopHead(ss0, 0, FALSE) ELSE Fail(ss0))
                    ELSE IF NeedsVideoPostProcessing(c)
                        THEN (IF ctxOk
                                 THEN [ss |-> [ss0 EXCEPT !.pc = "capture",
                                                          !.captureTimer = TRUE,
                                                          !.capturedCount = 0,
                                                          !.capAt = now],
                                       prog |-> 0]
                                 ELSE Fail(ss0))
                        ELSE DirectStart(ss0, recOk)
       IN  /\ sess' = [sess EXCEPT ![s] = e.ss]
           /\ isExporting' = ~Returned(e.ss)
           /\ exportProgress' = e.prog
    /\ abortRef' = FALSE
    /\ now' = Clock(sess', now)
    /\ UNCHANGED <<closureIsExporting, effectVars>>

\* cancelExport()
CancelExport ==
    /\ ~abortRef
    /\ abortRef' = TRUE
    /\ sess' = [s \in Sessions |->
                   IF InFlight(sess[s]) /\ sess[s].cancelledAt = "none"
                       THEN [sess[s] EXCEPT !.cancelledAt = sess[s].pc]
                       ELSE sess[s]]
    /\ UNCHANGED <<isExporting, exportProgress, closureIsExporting, now, effectVars>>

\* React re-renders: useCallback([isExporting]) yields a callback closing over
\* the current isExporting.
Render ==
    /\ closureIsExporting # isExporting
    /\ closureIsExporting' = isExporting
    /\ UNCHANGED <<isExporting, exportProgress, abortRef, now, sess, effectVars>>

\* Time passes while a timer is alive.  React commits a pending re-render
\* within the clock's resolution, so none is pending when the clock moves.
AdvanceTime(d) ==
    /\ \E s \in Sessions : HasTimer(sess[s])
    /\ closureIsExporting = isExporting
    /\ \A s \in Sessions : CanWait(sess[s], now + d)
    /\ now + d <= MaxTime
    /\ now' = now + d
    /\ UNCHANGED <<isExporting, exportProgress, abortRef, closureIsExporting, sess,
                   effectVars>>

\* GIF capture loop: the frame-interval timer fires; the frame is read
\* (readOk = FALSE: the read throws and is caught), then the loop goes on.
GifCaptureStep(s, readOk) ==
    LET ss == sess[s]
        fr == [idx |-> ss.i, fx |-> IF ss.cfg.asciiEnabled THEN {"ascii"} ELSE {},
               passes |-> 0]
        s1 == IF readOk
                  THEN [ss EXCEPT !.frames = Append(@, fr), !.lastCapture = now - ss.t0,
                                  !.readThrew = FALSE]
                  ELSE [ss EXCEPT !.readThrew = TRUE]
    IN  /\ ss.pc = "gifWait"
        /\ DueReached(ss)
        /\ Apply(s, GifLoopHead(s1, ss.i + 1, abortRef))

\* GIF post-processing: the yield timer fires and the loop resumes.
GifProcessStep(s) ==
    LET ss == sess[s]
    IN  /\ ss.pc = "gifYield"
        /\ DueReached(ss)
        /\ Apply(s, GifProcessFrom(ss, ss.i + 1, abortRef))

\* gif.on('progress'), p = k / frames.length
GifProgress(s, k) ==
    LET ss == sess[s]
    IN  /\ ss.pc = "gifRender"
        /\ k \in 1..Len(ss.frames)
        /\ exportProgress' = Tenths(8 * Len(ss.frames) + 2 * k, 10 * Len(ss.frames))
        /\ UNCHANGED <<isExporting, abortRef, closureIsExporting, now, sess,
                       effectVars>>

\* gif.on('finished'): the blob is downloaded.
GifFinished(s) ==
    LET ss == sess[s]
    IN  /\ ss.pc = "gifRender"
        /\ Apply(s, Finish([ss EXCEPT !.encoder = "gifFinished", !.delivered = TRUE],
                           "finished"))

\* Phase 1: one firing of captureLoop.
CaptureTick(s, readOk, ctxOk) ==
    LET c == sess[s].cfg
        elapsed == now - sess[s].t0
        ss == [sess[s] EXCEPT !.capAt = now, !.readThrew = FALSE,
                              !.tickedIn = IF StopReached(c, elapsed) THEN @
                                           ELSE @ \cup {(elapsed * c.exportFps) \div 1000}]
        expectedFrame == ExpectedFrame(c, elapsed)
        s1 == [ss EXCEPT !.capturedCount = expectedFrame]
    IN  /\ ss.pc = "capture"
        /\ PeriodPassed(c, sess[s].capAt, now)
        /\ IF expectedFrame <= ss.capturedCount /\ Len(ss.frames) > 0
               THEN Apply(s, [ss |-> ss, prog |-> exportProgress])
               ELSE IF abortRef \/ StopReached(c, elapsed)
                   THEN Apply(s, Phase2Start([s1 EXCEPT !.captureTimer = FALSE],
                                             abortRef, ctxOk, exportProgress))
                   ELSE Apply(s,
                          [ss |-> IF readOk
                                      THEN [s1 EXCEPT
                                              !.frames = Append(@,
                                                  [idx |-> expectedFrame, fx |-> {},
                                                   passes |-> 0]),
                                              !.lastCapture = elapsed]
                                      ELSE [s1 EXCEPT !.readThrew = TRUE,
                                                      !.readFailed = TRUE],
                           prog |-> Tenths(3 * elapsed * c.exportFps,
                                           10 * (1000 * TargetFrameCount(c) - 100))])

\* Phase 2: the yield timer fires and the loop resumes; phase 3 may start.
ProcessStep(s, ctxOk, recOk) ==
    LET ss == sess[s]
    IN  /\ ss.pc = "procYield"
        /\ DueReached(ss)
        /\ Apply(s, PpProcessFrom(ss, ss.i + 1, abortRef, ctxOk, recOk,
                                  exportProgress))

\* Phase 3: the timer of scheduleFrame(index + 1) fires.
PlaybackStep(s) ==
    LET ss == sess[s]
    IN  /\ ss.pc = "playback"
        /\ DueReached(ss)
        /\ Apply(s, ScheduleFrame(ss, ss.i, abortRef, exportProgress))

\* Phase 3: setTimeout(() => ppMediaRecorder.stop(), 100) fires.
StopTimer(s) ==
    LET ss == sess[s]
    IN  /\ ss.pc = "stopDelay"
        /\ DueReached(ss)
        /\ Apply(s, [ss |-> [ss EXCEPT !.pc = "stopping", !.encoder = "stopping",
                                       !.due = now * ss.cfg.exportFps],
                     prog |-> exportProgress])

\* onstop of either recorder: timers cleared, download unless aborted or no
\* chunk was collected.  The chunk lists are read only here: whether
\* ondataavailable has pushed a non-empty chunk by now is gotData.
RecorderStopped(s, gotData) ==
    LET ss == sess[s]
        download == ~abortRef /\ gotData
    IN  /\ ss.pc = "stopping"
        /\ Apply(s, Finish([ss EXCEPT !.encoder = "stopped",
                                      !.captureTimer = FALSE,
                                      !.delivered = download],
                           IF download THEN "finished"
                           ELSE IF abortRef THEN "aborted" ELSE "noData"))

\* Direct recording: one firing of compositeCaptureLoop.  The interval lives
\* until onstop clears it.
CompositeTick(s, readOk) ==
    LET ss == [sess[s] EXCEPT !.capAt = now]
        c == ss.cfg
        currentFrameNumber == ExpectedFrame(c, now - ss.t0)
        s1 == [ss EXCEPT !.capturedCount = currentFrameNumber]
    IN  /\ ss.captureTimer
        /\ c.exportFormat # "gif"
        /\ ~NeedsVideoPostProcessing(c)
        /\ PeriodPassed(c, sess[s].capAt, now)
        /\ sess' = [sess EXCEPT ![s] =
                      IF currentFrameNumber <= ss.capturedCount
                          THEN ss
                          ELSE IF readOk
                              THEN [s1 EXCEPT
                                      !.canvas = currentFrameNumber,
                                      !.canvasFx = IF c.asciiEnabled THEN {"ascii"}
                                                   ELSE EffectStack(c),
                                      !.fed = IF ss.encoder \in {"recording", "stopping"}
                                                  THEN Append(@, currentFrameNumber)
                                                  ELSE @]
                              ELSE s1]
        /\ UNCHANGED <<isExporting, exportProgress, abortRef, closureIsExporting, now,
                       effectVars>>

\* Direct recording: one firing of progressInterval.
ProgressTick(s) ==
    LET ss == [sess[s] EXCEPT !.progAt = now]
        c == ss.cfg
        elapsed == now - ss.t0
        progress == Min(Tenths(elapsed * c.exportFps, 1000 * TargetFrameCount(c)), 10)
    IN  /\ ss.pc = "record"
        /\ PeriodPassed(c, sess[s].progAt, now)
        /\ Apply(s, [ss |-> IF StopReached(c, elapsed) \/ abortRef
                                THEN [ss EXCEPT !.pc = "stopping",
                                                !.encoder = "stopping",
                                                !.due = now * c.exportFps]
                                ELSE ss,
                     prog |-> progress])

ExportInit ==
    /\ isExporting = FALSE
    /\ exportProgress = 0
    /\ abortRef = FALSE
    /\ closureIsExporting = FALSE
    /\ now = 0
    /\ sess = [s \in Sessions |-> IdleSession]

EffectsIdle ==
    /\ colorCache = <<>>
    /\ cacheHist = NoHist
    /\ dth = NoCall
    /\ pix = NoCall
    /\ asc = NoCall
    /\ gpu = NoEngine
    /\ rnd = NoRender

Init == ExportInit /\ EffectsIdle

\* One invocation at a time, any settings, any failure of the canvas, the
\* recorder or a frame read.
Next ==
    \/ \E c \in SettingsSet, ctxOk \in BOOLEAN, recOk \in BOOLEAN :
           ExportVideo(1, c, ctxOk, recOk)
    \/ CancelExport
    \/ Render
    \/ \E d \in TickDeltas : AdvanceTime(d)
    \/ \E s \in {1}, readOk \in BOOLEAN : GifCaptureStep(s, readOk)
    \/ \E s \in {1} : GifProcessStep(s)
    \/ \E s \in {1}, k \in 1..3 : GifProgress(s, k)
    \/ \E s \in {1} : GifFinished(s)
    \/ \E s \in {1}, readOk \in BOOLEAN, ctxOk \in BOOLEAN :
           CaptureTick(s, readOk, ctxOk)
    \/ \E s \in {1}, ctxOk \in BOOLEAN, recOk \in BOOLEAN :
           ProcessStep(s, ctxOk, recOk)
    \/ \E s \in {1} : PlaybackStep(s)
    \/ \E s \in {1} : StopTimer(s)
    \/ \E s \in {1}, gotData \in BOOLEAN : RecorderStopped(s, gotData)
    \/ \E s \in {1}, readOk \in BOOLEAN : CompositeTick(s, readOk)
    \/ \E s \in {1} : ProgressTick(s)

Spec == Init /\ [][Next]_vars

\* Timers keep firing, the clock keeps advancing while it is followed, and
\* the encoders signal their end (onstop, 'finished').
SpecLive ==
    /\ Spec
    /\ WF_vars(Render)
    /\ WF_vars(\E d \in TickDeltas : AdvanceTime(d))
    /\ WF_vars(\E readOk \in BOOLEAN : GifCaptureStep(1, readOk))
    /\ WF_vars(GifProcessStep(1))
    /\ WF_vars(GifFinished(1))
    /\ WF_vars(\E readOk \in BOOLEAN, ctxOk \in BOOLEAN : CaptureTick(1, readOk, ctxOk))
    /\ WF_vars(\E ctxOk \in BOOLEAN, recOk \in BOOLEAN : ProcessStep(1, ctxOk, recOk))
    /\ WF_vars(PlaybackStep(1))
    /\ WF_vars(StopTimer(1))
    /\ WF_vars(\E gotData \in BOOLEAN : RecorderStopped(1, gotData))
    /\ WF_vars(\E readOk \in BOOLEAN : CompositeTick(1, readOk))
    /\ WF_vars(ProgressTick(1))

\* Invocations that overlap: the GIF path, which returns while gif.render()
\* is pending, with nothing failing.
OverlapSettings == {GifFx, GifAscii}

\* The clock is followed in steps of one frame interval of those settings.
OverlapTickDeltas == {20}

NextOverlap ==
    \/ \E s \in Sessions, c \in OverlapSettings : ExportVideo(s, c, TRUE, TRUE)
    \/ CancelExport
    \/ Render
    \/ \E d \in OverlapTickDeltas : AdvanceTime(d)
    \/ \E s \in Sessions : GifCaptureStep(s, TRUE)
    \/ \E s \in Sessions : GifProcessStep(s)
    \/ \E s \in Sessions, k \in 1..3 : GifProgress(s, k)
    \/ \E s \in Sessions : GifFinished(s)

SpecOverlap == Init /\ [][NextOverlap]_vars

NextDither ==
    \/ \E data \in DitherFrames, palette \in DitherPalettes, intensity \in Intensities :
           FloydSteinbergCall(data, DitherHeight, palette, intensity)
    \/ FloydSteinbergPixel
    \/ \E data \in DitherFrames, palette \in DitherPalettes :
           ReduceColorsCall(data, palette)
    \/ ReduceColorsPixel
    \/ FrameDone

SpecDither == Init /\ [][NextDither]_vars

NextFloyd ==
    \/ \E data \in FloydFrames, palette \in DitherPalettes, intensity \in Intensities :
           FloydSteinbergCall(data, FloydHeight, palette, intensity)
    \/ FloydSteinbergPixel
    \/ FrameDone

SpecFloyd == Init /\ [][NextFloyd]_vars

NextBayer ==
    \/ \E data \in BayerFrames, palette \in BayerPalettes, intensity \in Intensities :
           BayerCall(data, palette, intensity)
    \/ BayerPixel
    \/ FrameDone

SpecBayer == Init /\ [][NextBayer]_vars

NextPixelation ==
    \/ \E width \in 1..MaxWidth, height \in 1..MaxHeight, pixelSize \in 1..MaxPixelSize :
           \E px \in PixelFrames(width, height) :
               PixelateCall(width, height, px, pixelSize)
    \/ PixelateDone

SpecPixelation == Init /\ [][NextPixelation]_vars

NextAscii ==
    \/ \E version \in AsciiVersions, cc \in [1..AsciiCols -> CellColors],
          charset \in DOMAIN Charsets, gamma \in Gammas, contrast \in Contrasts,
          invert \in BOOLEAN :
           AsciiCall(version, cc, charset, gamma, contrast, invert)
    \/ AsciiDone

SpecAscii == Init /\ [][NextAscii]_vars

NextGpu ==
    \/ \E failAt \in InitFailures, how \in ProgramFailures :
           InitializeFromCanvas(failAt, how)
    \/ \E src \in BayerFrames, intensity \in Intensities, tieUp \in BOOLEAN,
          throws \in BOOLEAN :
           GpuApplyDithering(src, intensity, tieUp, throws)
    \/ \E src \in BayerFrames, pixelSize \in 1..MaxPixelSize, throws \in BOOLEAN :
           GpuApplyPixelation(src, pixelSize, throws)

SpecGpu == Init /\ [][NextGpu]_vars

\* Frames of 0, 4 or 8 columns and 0 or 2 rows; fontSize unset (0) or 12.
NextRender ==
    \/ CreateCanvas
    \/ \E ctx \in DOMAIN CanvasSize, cols \in {0, 4, 8}, rows \in {0, 2}, fontSize \in {0, 12},
          fontWeight \in {"normal", "bold"} :
           RenderASCIIToCanvas(ctx, cols, rows, fontSize, fontWeight)

SpecRender == Init /\ [][NextRender]_vars

-----------------------------------------------------------------------------
(* Properties of the export pipeline *)

\* C1: targetFrameCount is round(loopDuration x exportLoopCount x exportFps)
\* (120 for 2.0 s, 2 loops, 30 fps) and, whatever the timers' jitter and
\* whichever reads fail, the list of captured raw frames never holds more
\* than targetFrameCount frames.
C1_FrameCountBound ==
    /\ TargetFrameCount(ExampleSettings) = 120
    /\ \A s \in Sessions :
           Len(sess[s].frames) <= TargetFrameCount(sess[s].cfg)

\* C1 case: phase 1 has ended with exactly targetFrameCount (3) raw frames.
C1_FullCapture ==
    \E s \in Sessions :
        /\ sess[s].pc = "procYield"
        /\ sess[s].cfg = WebmFx
        /\ Len(sess[s].frames) = TargetFrameCount(sess[s].cfg)

\* C2: the elapsed time at which the last raw frame was captured is strictly
\* less than loopDuration x exportLoopCount.
C2_LastCaptureBeforeLoopEnd ==
    \A s \in Sessions :
        sess[s].lastCapture >= 0 =>
            sess[s].lastCapture < sess[s].cfg.loopDuration * sess[s].cfg.exportLoopCount

\* C3: an invocation that cancelExport found in its Processing phase (the
\* GIF post-processing pass or phase 2) creates no encoder, feeds it no
\* frame and delivers nothing.
C3_AbortMidProcessing ==
    \A s \in Sessions :
        sess[s].cancelledAt \in {"gifYield", "procYield"} =>
            /\ sess[s].encoder = "none"
            /\ sess[s].fed = <<>>
            /\ ~sess[s].delivered
            /\ sess[s].outcome \in {"none", "aborted"}

\* C4: an invocation that cancelExport found under way, in any state before
\* its artifact was delivered, never delivers an artifact.
C4_CancelledNeverDelivers ==
    \A s \in Sessions : sess[s].cancelledAt # "none" => ~sess[s].delivered

\* C5: at most one export is in flight at any time.
C5_AtMostOneInFlight ==
    Cardinality({s \in Sessions : InFlight(sess[s])}) <= 1

\* C13: an export whose capture phase ended with no captured frame, without
\* an abort, ends failed: the failure is reported (an alert with the error's
\* message) and no artifact is produced.
C13_ZeroFramesFails ==
    \A s \in Sessions :
        sess[s].outcome = "empty" => (sess[s].alerts > 0 /\ ~sess[s].delivered)

C21_EachFrameOnceInOrder ==
    \A s \in Sessions :
        (~abortRef /\ sess[s].pc \in {"gifRender", "stopDelay"}) =>
            LET ss == sess[s]
                looped == ~ss.cfg.asciiEnabled /\ HasEffects(ss.cfg)
            IN  /\ ss.fed = FrameIds(ss.frames)
                /\ \A m \in 1..(Len(ss.fed) - 1) : ss.fed[m] < ss.fed[m + 1]
                /\ \A m \in 1..Len(ss.frames) :
                       ss.frames[m].passes = IF looped THEN 1 ELSE 0

\* C22: the frames captured by phase 1 have distinct, increasing indices
\* (at most one frame per expected index), and when captureLoop fired,
\* before the stop time, in every frame interval, no read threw and the phase
\* did not end on the abort flag, the list holds exactly one frame for each
\* index 0..targetFrameCount-1.
C22_OneFramePerExpectedIndex ==
    \A s \in Sessions :
        LET ss == sess[s]
            n == TargetFrameCount(ss.cfg)
        IN  (ss.cfg.exportFormat # "gif") =>
                /\ \A m \in 1..(Len(ss.frames) - 1) :
                       ss.frames[m].idx < ss.frames[m + 1].idx
                /\ (/\ ss.pc \in {"procYield", "playback", "stopDelay"}
                    /\ (0..(n - 1)) \subseteq ss.tickedIn
                    /\ ~ss.readFailed)
                       => FrameIds(ss.frames) = [m \in 1..n |-> m - 1]

\* C22 case: phase 1 has ended after a tick in each of the three frame
\* intervals, no read having thrown, with the frames 0, 1, 2.
C22_ThreeFramesCaptured ==
    \E s \in Sessions :
        /\ sess[s].pc = "procYield"
        /\ sess[s].tickedIn = {0, 1, 2}
        /\ ~sess[s].readFailed
        /\ FrameIds(sess[s].frames) = <<0, 1, 2>>

\* C23: a firing of captureLoop that finds the abort flag set or
\* elapsed >= stopDurationMs ends phase 1 and clears the interval: the
\* invocation is not in its capture phase after it, and its capture timer
\* is not alive.
C23_StopPolledAtEveryTick ==
    [][\A s \in Sessions :
          (/\ sess[s].pc = "capture"
           /\ sess'[s].capAt # sess[s].capAt \/ sess'[s].pc # "capture"
           /\ abortRef' = abortRef
           /\ abortRef \/ StopReached(sess[s].cfg, now - sess[s].t0))
              => /\ sess'[s].pc # "capture"
                 /\ ~sess'[s].captureTimer]_vars

\* C24: in an export with asciiEnabled, whatever its format and its
\* dithering, palette and pixelation settings, every frame of the list and
\* the frame drawn on the recording canvas went through the ASCII rendering
\* and through no dithering, palette reduction or pixelation.
C24_AsciiExcludesEffects ==
    \A s \in Sessions :
        sess[s].cfg.asciiEnabled =>
            /\ \A m \in 1..Len(sess[s].frames) : sess[s].frames[m].fx = {"ascii"}
            /\ sess[s].canvasFx \subseteq {"ascii"}

\* C24 case: an mp4 export with ASCII, dithering and pixelation enabled has
\* given its recorder a frame, rendered as ASCII only.
C24_AsciiFrameRecorded ==
    \E s \in Sessions :
        /\ sess[s].cfg = Mp4Ascii
        /\ sess[s].pc = "record"
        /\ sess[s].fed # <<>>
        /\ sess[s].canvasFx = {"ascii"}

\* C25: an export that failed has reported exactly one failure and has no
\* timer left alive: neither its capture interval nor any of its timeouts.
C25_FailureClearsTimers ==
    \A s \in Sessions :
        sess[s].outcome = "failed" =>
            /\ sess[s].alerts = 1
            /\ ~HasTimer(sess[s])

\* C29: whenever a MediaRecorder is recording, a captured frame has been
\* drawn on the canvas whose stream it records.
C29_RecorderStartsOnDrawnFrame ==
    \A s \in Sessions :
        sess[s].encoder = "recording" => sess[s].canvas # -1

\* C30: with timers firing and the encoder signalling its end, an invocation
\* that passed the isExporting guard eventually returns (its finally block has
\* run); and from then on isExporting is false and exportProgress is 0 after
\* every later step of that export.
C30_TerminatesAndStaysReset ==
    /\ \A s \in {1} : InFlight(sess[s]) ~> Returned(sess[s])
    /\ [][\A s \in {1} :
             (Returned(sess[s]) /\ Returned(sess'[s]))
                 => /\ isExporting' = FALSE
                    /\ exportProgress' = 0]_vars

\* C20: in phase 3 the processed frame at index k is put on the recording
\* canvas no earlier than startPlaybackTime + k x frameIntervalMs: frame 0
\* and frame 1 by the step that starts the playback, frame k > 1 by the
\* timer of scheduleFrame(k).
C20_FramePutNoEarlierThanDue ==
    [][\A s \in Sessions :
          /\ (sess[s].pc # "playback" /\ sess'[s].pc = "playback")
                 => \A k \in 0..(sess'[s].i - 1) :
                        now * sess'[s].cfg.exportFps
                            >= sess'[s].t0 * sess'[s].cfg.exportFps + k * 1000
          /\ (sess[s].pc = "playback" /\ sess'[s].pc = "playback"
                /\ sess'[s].i = sess[s].i + 1)
                 => now * sess[s].cfg.exportFps
                        >= sess[s].t0 * sess[s].cfg.exportFps + sess[s].i * 1000]_vars

-----------------------------------------------------------------------------
(* Properties of the nearest-colour cache and of the effects *)

\* C6: every findNearestColor call, whatever earlier calls (with this or
\* another palette) left in the cache, returns a colour at least as near to
\* the colour asked for as every entry of the palette it was given.
C6_NearestInEveryCacheState ==
    dth.pc # "idle" =>
        \A i \in 1..Len(dth.looks) : \A k \in 1..Len(dth.palette) :
            LET c == dth.looks[i].color
            IN  SquaredDistance(c[1], c[2], c[3], dth.looks[i].nearest)
                    <= SquaredDistance(c[1], c[2], c[3], dth.palette[k])

\* C7: the cache never holds more than MAX_CACHE_SIZE entries, and a key that
\* was evicted re-resolves to the colour it resolved to before its eviction.
C7_BoundedAndStableAfterEviction ==
    /\ Len(colorCache) <= MAX_CACHE_SIZE
    /\ dth.pc # "idle" =>
           \A i \in 1..Len(dth.looks) :
               dth.looks[i].prior # <<>> => dth.looks[i].nearest = dth.looks[i].prior

\* C8: the cache is least-recently-used: the entry evicted on a miss at
\* capacity is the one whose last access, hit or insertion, is the oldest.
C8_EvictsLeastRecentlyUsed ==
    dth.pc # "idle" =>
        \A i \in 1..Len(dth.looks) :
            dth.looks[i].evicted # -1 => dth.looks[i].evicted = dth.looks[i].lruVictim

\* C9: applyFloydSteinbergDithering leaves a frame whose pixels all are
\* palette colours unchanged, with zero residual error at every pixel.
C9_PaletteFrameUnchanged ==
    (/\ dth.pc = "returned"
     /\ dth.fn = "floydSteinberg"
     /\ \A n \in 0..(dth.width * dth.height - 1) :
            \E k \in 1..Len(dth.palette) :
                dth.palette[k] = <<dth.orig[4 * n + 1], dth.orig[4 * n + 2],
                                   dth.orig[4 * n + 3]>>)
        => /\ dth.data = dth.orig
           /\ \A n \in 1..Len(dth.errs) : dth.errs[n] = <<Zero, Zero, Zero>>

\* C10: after applyPixelation with block size P > 1, all pixels of a block
\* (blocks aligned at multiples of P from the top-left, clamped at the right
\* and bottom edges) have the same RGBA value, that is, every pixel n has the
\* value of the top-left pixel m of its block; and the frame keeps its width
\* and height.
C10_BlocksUniform ==
    (pix.pc = "returned" /\ pix.pixelSize > 1) =>
        LET w == pix.canvas.width
            h == pix.canvas.height
            P == pix.pixelSize
            d == pix.canvas.data
        IN  /\ w = pix.orig.width
            /\ h = pix.orig.height
            /\ Len(d) = 4 * w * h
            /\ \A n \in 0..(w * h - 1) :
                   LET m == (((n \div w) \div P) * P) * w + ((n % w) \div P) * P
                   IN  \A ch \in 1..4 : d[4 * n + ch] = d[4 * m + ch]

\* C10 case: a 3 x 2 frame pixelated with P = 2 (a full block and a partial
\* block at the right edge), which changed it.
C10_PartialBlocksPixelated ==
    /\ pix.pc = "returned"
    /\ pix.pixelSize = 2
    /\ pix.orig.width = 3
    /\ pix.orig.height = 2
    /\ pix.canvas.data # pix.orig.data

\* C12: with intensity 0 applyBayerDithering maps every pixel, at every
\* position, to the palette colour nearest to the pixel's input colour (with
\* the palette black and white, (10,10,10) becomes (0,0,0)).
C12_BayerZeroIsNearest ==
    (dth.pc = "returned" /\ dth.fn = "bayer" /\ dth.intensity = Zero) =>
        \A n \in 0..(dth.width * dth.height - 1) :
            LET r == dth.orig[4 * n + 1]
                g == dth.orig[4 * n + 2]
                b == dth.orig[4 * n + 3]
                out == <<dth.data[4 * n + 1], dth.data[4 * n + 2], dth.data[4 * n + 3]>>
            IN  /\ \E k \in 1..Len(dth.palette) : dth.palette[k] = out
                /\ \A k \in 1..Len(dth.palette) :
                       SquaredDistance(r, g, b, out)
                           <= SquaredDistance(r, g, b, dth.palette[k])
                /\ (dth.palette = BlackWhitePalette /\ <<r, g, b>> = <<10, 10, 10>>)
                       => out = <<0, 0, 0>>

-----------------------------------------------------------------------------
(* Properties of the ASCII cell mapping *)

\* C11: with the charset, gamma, contrast and invert of one call fixed, the
\* charset index selected for a cell is non-decreasing in the luminance of
\* the cell's average colour: of two cells, the brighter never has the lower
\* index.
C11_IndexMonotoneInLuminance ==
    asc.pc = "returned" =>
        \A row \in 1..asc.frame.rows : \A c1, c2 \in 1..asc.frame.cols :
            LET a == asc.frame.cells[row][c1]
                b == asc.frame.cells[row][c2]
            IN  FLeq(a.lum, b.lum) => a.index <= b.index

\* C26: every cell returned by imageDataToASCIICells has a brightness in
\* [0, 1], whatever the frame, the charset, the contrast (1 included), the
\* gamma and invert.
C26_BrightnessInUnitInterval ==
    asc.pc = "returned" =>
        \A row \in 1..asc.frame.rows : \A col \in 1..asc.frame.cols :
            LET brightness == asc.frame.cells[row][col].brightness
            IN  FLeq(<<0, 1>>, brightness) /\ FLeq(brightness, <<1, 1>>)

\* C28: after renderASCIIToCanvas has returned for a frame with rows > 0
\* and cols > 0, the font of the context it drew on is the font string
\* computed for that call.
C28_FontSetOnContext ==
    (rnd.call.pc = "returned" /\ rnd.call.rows > 0 /\ rnd.call.cols > 0) =>
        rnd.font[rnd.call.ctx] = rnd.call.fontStr

-----------------------------------------------------------------------------
(* Properties of the Floyd-Steinberg error diffusion *)

\* C17: in a Floyd-Steinberg call, the error added to pixel (x, y) before
\* its quantisation is intensity times the sum of the shares addressed to
\* it: 7/16 of the residual of (x-1, y), 3/16 of that of (x+1, y-1), 5/16 of
\* that of (x, y-1) and 1/16 of that of (x-1, y-1), each for a pixel inside
\* the frame.
C17_SharesReachTheirNeighbours ==
    (dth.pc = "returned" /\ dth.fn = "floydSteinberg") =>
        \A y \in 0..(dth.height - 1), x \in 0..(dth.width - 1), c \in 1..3 :
            LET Err(px, py) == dth.errs[py * dth.width + px + 1][c]
                right == IF x > 0 THEN QTimes(Err(x - 1, y), 7) ELSE Zero
                belowLeft == IF y > 0 /\ x < dth.width - 1
                                 THEN QTimes(Err(x + 1, y - 1), 3) ELSE Zero
                below == IF y > 0 THEN QTimes(Err(x, y - 1), 5) ELSE Zero
                belowRight == IF y > 0 /\ x > 0 THEN Err(x - 1, y - 1) ELSE Zero
                shares == QMul(QAdd(QAdd(right, belowLeft), QAdd(below, belowRight)),
                               dth.intensity)
                added == QMul(dth.adds[y * dth.width + x + 1][c], dth.intensity)
            IN  added[1] * shares[2] = shares[1] * added[2]

\* C18: in a Floyd-Steinberg call, when the processing of a row starts
\* (after nextBuf.fill(0)), every element of the next row of the error
\* buffer is zero.
C18_NextRowStartsZero ==
    (dth.pc = "returned" /\ dth.fn = "floydSteinberg") =>
        \A n \in 1..Len(dth.nextZero) : dth.nextZero[n]

\* C19: after a Bayer or Floyd-Steinberg call with palette P, whatever the
\* intensity, the RGB of every pixel of the frame is an entry of P.
C19_OutputIsInPalette ==
    (dth.pc = "returned" /\ dth.fn \in {"bayer", "floydSteinberg"}) =>
        \A n \in 0..(dth.width * dth.height - 1) :
            \E k \in 1..Len(dth.palette) :
                dth.palette[k] = <<dth.data[4 * n + 1], dth.data[4 * n + 2],
                                   dth.data[4 * n + 3]>>

-----------------------------------------------------------------------------
(* Properties of the GPU effects engine *)

\* C15: initializeFromCanvas never throws: it returns true or false, and it
\* returns false whenever the context is unavailable or a step of the quad
\* set-up, of the shader compilation and program linking, or of the
\* framebuffer creation fails.
C15_InitializeNeverThrows ==
    gpu.call = "initializeFromCanvas" =>
        /\ gpu.completion \in {"return true", "return false"}
        /\ gpu.failed # "none" => gpu.completion = "return false"

\* C15 case: the dithering program failed to link and the call returned
\* false.
C15_LinkFailureReturnsFalse ==
    /\ gpu.call = "initializeFromCanvas"
    /\ gpu.failed = "ditheringProgram"
    /\ gpu.args = <<"linkProgram">>
    /\ gpu.completion = "return false"

\* C27: once initializeFromCanvas has returned false, whichever step failed,
\* applyPixelation and applyDithering return false and issue no draw call.
C27_UnavailableAfterFailedInit ==
    (gpu.initialized = "return false"
        /\ gpu.call \in {"applyPixelation", "applyDithering"}) =>
            /\ gpu.completion = "return false"
            /\ ~gpu.drew

\* C16: what the GPU path writes equals what the CPU path computes: GPU
\* dithering equals ordered dithering with the 8x8 matrix followed by the
\* nearest palette colour, for every palette, and GPU pixelation equals
\* applyPixelation.
C16_GpuEqualsCpu ==
    /\ (gpu.call = "applyDithering" /\ gpu.drew) =>
           \A palette \in BayerPalettes :
               gpu.out = CpuBayer(gpu.src, DitherWidth, DitherHeight, palette,
                                  gpu.args[1])
    /\ (gpu.call = "applyPixelation" /\ gpu.drew) =>
           gpu.out = applyPixelation(gpu.src, DitherWidth, DitherHeight, gpu.args[1])

=============================================================================
